---- MODULE Spec2Model ----
(***************************************************************************)
(* Servo motion controller of the FishFeeder repository.                   *)
(*                                                                         *)
(* The repository holds two controllers with the same motion code:         *)
(*   variant "app"    : app.servo.ServoController   (src/app/servo.py),    *)
(*                      configured through app.config.settings;            *)
(*   variant "legacy" : the single-file ServoController of src/main.py,    *)
(*                      with the constants written in the code.            *)
(* The variant is fixed in the initial state.  The "app" controller is the *)
(* one with the current-angle field, the initialized flag, reset() and the *)
(* context-manager protocol.                                               *)
(*                                                                         *)
(* Units.  Angles are integers in hundredths of a degree, servo values in  *)
(* thousandths (-1000..1000 stands for -1.0..1.0), speeds and delays in    *)
(* tenths of a second, compartment positions in tenths, degrees of         *)
(* rotate_degrees in whole degrees.                                        *)
(*                                                                         *)
(* Actuator driver (gpiozero.Servo, not part of the repository): assigning *)
(* .value on None raises AttributeError; on a closed device it raises; a   *)
(* value outside [-1, 1] is refused with OutputDeviceBadValue; a device is *)
(* truthy exactly while it is open (CompositeDevice.__len__).              *)
(***************************************************************************)
EXTENDS Integers, Sequences, FiniteSets, TLC

\* ------------------------------------------------------------------ bounds
NumCallers == 2          \* concurrent request threads
MaxCalls == 1            \* motion calls issued by each caller
MaxLifecycleCalls == 2   \* initialize()/cleanup()/with-scope calls of the owner

Callers == 1..NumCallers

\* inputs of the motion operations (valid and invalid ones)
\* <<angle, speed>>: 0.0 degrees at 0.5 s; 180.0 and 200.0 degrees at 0.1 s;
\* 45.0 degrees at -0.1 s
SetAngleInputs == {<<0, 5>>, <<18000, 1>>, <<20000, 1>>, <<4500, -1>>}
\* <<degrees, speed>>
RotateInputs == {<<-25, 1>>, <<0, 1>>, <<20, 1>>}
\* <<compartments, speed>>
SpinInputs == {<<0, 1>>, <<1, 1>>, <<2, 1>>}

\* ------------------------------------------------------- program constants
NeutralAngle == 9000       \* 90.0 degrees
HalfRange == 9000          \* 90.0 degrees, the divisor of _angle_to_value
MaxAngle == 18000          \* 180 degrees, the clamp of spin_compartments
PulseOffset == 4500        \* 45 degrees, the overshoot of rotate_degrees
StepDegrees == 10          \* rotate_degrees breaks the rotation in 10-degree steps
DefaultSpeed == 5          \* default_speed: float = 0.5 of app/config.py
LegacyDefaultSpeed == 5    \* the reset route of src/main.py passes 0.5
LegacyInitialPosition == 0 \* initial_position = 0
LegacyIncrement == 13      \* increment = 1.3
LegacyDelay == 2           \* time.sleep(0.2)
CompartmentInitialPosition == 0  \* compartment_initial_position = 0.0
CompartmentIncrement == 13       \* compartment_increment = 1.3
CompartmentDelay == 2            \* compartment_delay = 0.2
DutySpan == 125            \* 12.5, the divisor of the position->angle mapping
ResetAngle == 9000         \* reset() passes 90.0
DefaultPin == 17           \* servo_pin: int = 17

\* The attributes the Settings object really has: the fields declared in the
\* body of class Settings.  pwm_frequency, min_duty_cycle, max_duty_cycle,
\* default_speed, min_speed, max_speed and the three compartment_* names are
\* assigned at module level of app/config.py, after the class body ended, so
\* they are attributes of the module and not of `settings`.
SettingsFields == {"app_name", "app_version", "app_description", "servo_pin"}

\* settings.<name> evaluates iff <name> is a field; otherwise AttributeError.
SettingsHas(name) == name \in SettingsFields

VARIABLES
  variant,        \* "app" or "legacy"
  servo_pin,      \* self.servo_pin
  servo,          \* self.servo: 0 is None, h > 0 the h-th handle acquired
  closes,         \* closes[h]: number of close() calls made on handle h
  initialized,    \* self._initialized (app)
  current_angle,  \* self.current_angle (app)
  lock,           \* self.lock: 0 free, c held by caller c
  pc,             \* pc[c]: position of caller c
  call,           \* call[c]: the operation and arguments of c's last call, its
                  \* number n, and whether the handle was open when it began
  idx,            \* idx[c]: loop index of rotate_degrees / spin_compartments
  outcome,        \* outcome[c]: how c's last call ended
  ncalls,         \* ncalls[c]: calls issued by c
  log,            \* driver events: signal writes, detaches and sleeps
  order,          \* callers in the order they acquired the lock
  opc,            \* position of the owning context
  oret,           \* where the owner's initialize()/cleanup() returns to
  oexc,           \* the with-body left by an exception
  nlife,          \* lifecycle calls begun by the owner
  lastlife,       \* the last lifecycle call the owner completed
  prevlife        \* the lifecycle call completed before that one

vars == <<variant, servo_pin, servo, closes, initialized, current_angle, lock, pc, call,
          idx, outcome, ncalls, log, order, opc, oret, oexc, nlife, lastlife,
          prevlife>>

ctrlVars == <<servo, closes, initialized>>
callerVars == <<pc, call, idx, outcome, ncalls>>
ownerVars == <<opc, oret, oexc, nlife, lastlife, prevlife>>

NoCall == [op |-> "none", arg |-> 0, speed |-> 0, n |-> 0, live |-> FALSE]

\* ---------------------------------------------------------------- handle
IsOpen(h) == h > 0 /\ h <= Len(closes) /\ closes[h] = 0

\* bool(self.servo): None is falsy, a device is truthy while open
Truthy(h) == h # 0 /\ IsOpen(h)

\* ------------------------------------------------------------ conversions
\* a conversion to the duty range: angle / 180
AngleToValue_Duty(angle) == (angle * 1000) \div MaxAngle

\* _angle_to_value: (angle - 90.0) / 90.0
AngleToValue(angle) == ((angle - HalfRange) * 1000) \div HalfRange

\* division that rounds toward minus infinity, as // does
TruncDiv_Floor(x, d) == x \div d

\* int(x / 10): Python's int() truncates toward zero
TruncDiv(x, d) == IF x >= 0 THEN x \div d ELSE -((-x) \div d)

Abs(x) == IF x < 0 THEN -x ELSE x

\* steps = abs(int(degrees / 10))
RotateSteps(degrees) == Abs(TruncDiv(degrees, StepDegrees))

\* direction = 1 if degrees > 0 else -1
RotateDirection(degrees) == IF degrees > 0 THEN 1 ELSE -1

\* angle = 90 + (direction * 45)
PulseAngle(degrees) == NeutralAngle + RotateDirection(degrees) * PulseOffset

Min(a, b) == IF a < b THEN a ELSE b
Max(a, b) == IF a > b THEN a ELSE b

\* position = initial_position + (increment * i), in tenths
CompartmentPosition(i) ==
  IF variant = "app"
    THEN CompartmentInitialPosition + CompartmentIncrement * i
    ELSE LegacyInitialPosition + LegacyIncrement * i

\* angle = min(180, max(0, (position / 12.5) * 180.0)); the position is in
\* tenths and the angle in hundredths of a degree
CompartmentAngle(i) ==
  Min(MaxAngle, Max(0, (CompartmentPosition(i) * 180 * 100) \div DutySpan))

\* ------------------------------------------------------------------ driver
\* self.servo.value = v: the result of the assignment
WriteResult(v) ==
  IF servo = 0 THEN "AttributeError"
  ELSE IF ~IsOpen(servo) THEN "DriverError"
  ELSE IF v < -1000 \/ v > 1000 THEN "DriverError"
  ELSE "ok"

\* self.servo.value = None
DetachResult ==
  IF servo = 0 THEN "AttributeError"
  ELSE IF ~IsOpen(servo) THEN "DriverError"
  ELSE "ok"

Event(c, kind, val) == [c |-> c, n |-> call[c].n, kind |-> kind, val |-> val]

\* ------------------------------------------------------------------- lock
\* a lock whose acquire never blocks
LockAvailable_NoBlock == TRUE

\* threading.Lock: acquire blocks while another caller holds it
LockAvailable == lock = 0

\* ------------------------------------------------------------------- Init
Init ==
  /\ variant \in {"app", "legacy"}
  /\ servo_pin = DefaultPin
  \* app: __init__ leaves servo None; legacy: __init__ calls initialize()
  /\ servo = IF variant = "app" THEN 0 ELSE 1
  /\ closes = IF variant = "app" THEN <<>> ELSE <<0>>
  /\ initialized = FALSE
  /\ current_angle = NeutralAngle
  /\ lock = 0
  /\ pc = [c \in Callers |-> "idle"]
  /\ call = [c \in Callers |-> NoCall]
  /\ idx = [c \in Callers |-> 0]
  /\ outcome = [c \in Callers |-> "none"]
  /\ ncalls = [c \in Callers |-> 0]
  /\ log = <<>>
  /\ order = <<>>
  /\ opc = "idle"
  /\ oret = "idle"
  /\ oexc = FALSE
  /\ nlife = 0
  /\ lastlife = [op |-> "none", res |-> "none"]
  /\ prevlife = [op |-> "none", res |-> "none"]


\* ------------------------------------------------------- caller helpers
CanCall(c) == pc[c] = "idle" /\ ncalls[c] < MaxCalls

\* a call of caller c enters the controller with the arguments given
Enter(c, opname, arg, speed, at) ==
  /\ call' = [call EXCEPT ![c] = [op |-> opname, arg |-> arg, speed |-> speed,
                                  n |-> ncalls[c] + 1,
                                  live |-> IsOpen(servo)]]
  /\ ncalls' = [ncalls EXCEPT ![c] = @ + 1]
  /\ pc' = [pc EXCEPT ![c] = at]
  /\ outcome' = [outcome EXCEPT ![c] = "none"]
  /\ idx' = [idx EXCEPT ![c] = 0]

\* a call that ends before it reaches the lock
EndAtEntry(c, opname, arg, speed, how) ==
  /\ call' = [call EXCEPT ![c] = [op |-> opname, arg |-> arg, speed |-> speed,
                                  n |-> ncalls[c] + 1,
                                  live |-> IsOpen(servo)]]
  /\ ncalls' = [ncalls EXCEPT ![c] = @ + 1]
  /\ pc' = [pc EXCEPT ![c] = "idle"]
  /\ outcome' = [outcome EXCEPT ![c] = how]
  /\ idx' = [idx EXCEPT ![c] = 0]

\* a lock taken with acquire() and released only before a normal return
Leave_KeepOnError(c, how) ==
  /\ lock' = IF how = "returned" THEN 0 ELSE lock
  /\ pc' = [pc EXCEPT ![c] = "idle"]
  /\ outcome' = [outcome EXCEPT ![c] = how]

\* leaving the `with self.lock:` block, by return or by exception, releases
\* the lock and ends the call
Leave(c, how) ==
  /\ lock' = 0
  /\ pc' = [pc EXCEPT ![c] = "idle"]
  /\ outcome' = [outcome EXCEPT ![c] = how]

Goto(c, at) == pc' = [pc EXCEPT ![c] = at]

\* ------------------------------------------------------- request models
\* Field(ge=0, le=180) / Field(ge=0.1, le=5.0)
AngleRequestValid(angle, speed) ==
  /\ angle >= 0 /\ angle <= 18000
  /\ speed >= 1 /\ speed <= 50

\* Field(ge=-360, le=360)
RotateRequestValid(degrees, speed) ==
  /\ degrees >= -360 /\ degrees <= 360
  /\ speed >= 1 /\ speed <= 50

\* Field(ge=1, le=50)
CompartmentRequestValid(compartments, speed) ==
  /\ compartments >= 1 /\ compartments <= 50
  /\ speed >= 1 /\ speed <= 50

RequestValid(opname, arg, speed) ==
  CASE opname = "set_angle" -> AngleRequestValid(arg, speed)
    [] opname = "rotate_degrees" -> RotateRequestValid(arg, speed)
    [] opname = "spin_compartments" -> CompartmentRequestValid(arg, speed)
    [] OTHER -> TRUE

\* ---------------------------------------------------------- motion calls
\* set_angle(angle, speed) called on the controller
CallSetAngle(c) ==
  /\ CanCall(c)
  /\ \E in \in SetAngleInputs :
       Enter(c, "set_angle", in[1], in[2], "sa_lock")
  /\ UNCHANGED <<variant, servo_pin, ctrlVars, current_angle, lock, log, order, ownerVars>>

\* rotate_degrees(degrees, speed) called on the controller
CallRotateDegrees(c) ==
  /\ CanCall(c)
  /\ \E in \in RotateInputs :
       Enter(c, "rotate_degrees", in[1], in[2], "rd_lock")
  /\ UNCHANGED <<variant, servo_pin, ctrlVars, current_angle, lock, log, order, ownerVars>>

\* spin_compartments(compartments, speed) called on the controller
CallSpinCompartments(c) ==
  /\ CanCall(c)
  /\ \E in \in SpinInputs :
       Enter(c, "spin_compartments", in[1], in[2], "sc_lock")
  /\ UNCHANGED <<variant, servo_pin, ctrlVars, current_angle, lock, log, order, ownerVars>>

\* app: reset() calls self.set_angle(90.0); speed is None, so set_angle reads
\* settings.default_speed, which is no attribute of settings: AttributeError.
\* legacy: the reset route calls servo_controller.set_angle(90, 0.5).
CallReset(c) ==
  /\ CanCall(c)
  /\ IF variant = "app"
       THEN IF SettingsHas("default_speed")
              THEN Enter(c, "reset", ResetAngle, DefaultSpeed, "sa_lock")
              ELSE EndAtEntry(c, "reset", ResetAngle, 0, "AttributeError")
       ELSE Enter(c, "reset", ResetAngle, LegacyDefaultSpeed, "sa_lock")
  /\ UNCHANGED <<variant, servo_pin, ctrlVars, current_angle, lock, log, order, ownerVars>>

\* legacy routes: a request body outside the Field bounds fails validation
\* and the handler, hence the controller, is never called
RouteReject(c) ==
  /\ CanCall(c)
  /\ variant = "legacy"
  /\ \E opname \in {"set_angle", "rotate_degrees", "spin_compartments"} :
     \E in \in (CASE opname = "set_angle" -> SetAngleInputs
                  [] opname = "rotate_degrees" -> RotateInputs
                  [] OTHER -> SpinInputs) :
       /\ ~RequestValid(opname, in[1], in[2])
       /\ EndAtEntry(c, opname, in[1], in[2], "ValidationError")
  /\ UNCHANGED <<variant, servo_pin, ctrlVars, current_angle, lock, log, order, ownerVars>>

\* with self.lock: entry
Acquire(c) ==
  /\ pc[c] \in {"sa_lock", "rd_lock", "sc_lock"}
  /\ LockAvailable
  /\ lock' = c
  /\ order' = Append(order, <<c, call[c].n>>)
  /\ Goto(c, CASE pc[c] = "sa_lock" -> "sa_write"
               [] pc[c] = "rd_lock" -> "rd_loop"
               [] OTHER -> "sc_loop")
  /\ UNCHANGED <<variant, servo_pin, ctrlVars, current_angle, call, idx, outcome, ncalls,
                 log, ownerVars>>

\* --------------------------------------------------------------- set_angle
\* an assignment of current_angle placed next to the write, before the sleep
AngleAtWrite_Early(c) == call[c].arg

\* current_angle once the write is made: line 83 does not assign it
AngleAtWrite(c) == current_angle

\* value = self._angle_to_value(angle); self.servo.value = value
SetAngleWrite(c) ==
  /\ pc[c] = "sa_write"
  /\ LET v == AngleToValue(call[c].arg) IN
     IF WriteResult(v) = "ok"
       THEN /\ log' = Append(log, Event(c, "write", v))
            /\ current_angle' = AngleAtWrite(c)
            /\ Goto(c, "sa_sleep")
            /\ UNCHANGED <<lock, outcome>>
       ELSE /\ Leave(c, WriteResult(v))
            /\ UNCHANGED <<log, current_angle>>
  /\ UNCHANGED <<variant, servo_pin, ctrlVars, call, idx, ncalls, order, ownerVars>>

\* an assignment of current_angle placed after the with block: the lock is
\* released before it
KeepLockForAssign_Released == lock' = 0

\* `self.current_angle = angle` is the last statement inside `with self.lock:`
KeepLockForAssign == lock' = lock

\* time.sleep(speed): a negative length raises ValueError.  The legacy
\* set_angle ends here; the app one goes on to assign current_angle.
SetAngleSleep(c) ==
  /\ pc[c] = "sa_sleep"
  /\ IF call[c].speed < 0
       THEN /\ Leave(c, "ValueError")
            /\ UNCHANGED log
       ELSE /\ log' = Append(log, Event(c, "sleep", call[c].speed))
            /\ IF variant = "app"
                 THEN Goto(c, "sa_assign") /\ KeepLockForAssign
                        /\ UNCHANGED outcome
                 ELSE Leave(c, "returned")
  /\ UNCHANGED <<variant, servo_pin, ctrlVars, current_angle, call, idx, ncalls, order,
                 ownerVars>>

\* the field keeps its old value
AssignedAngle_Stale(c) == current_angle

\* the angle taken as relative to the current one
AssignedAngle_Relative(c) == current_angle + call[c].arg

\* the right-hand side of `self.current_angle = angle`
AssignedAngle(c) == call[c].arg

\* self.current_angle = angle, then the with block ends
SetAngleAssign(c) ==
  /\ pc[c] = "sa_assign"
  /\ current_angle' = AssignedAngle(c)
  /\ Leave(c, "returned")
  /\ UNCHANGED <<variant, servo_pin, ctrlVars, call, idx, ncalls, log, order, ownerVars>>


\* ---------------------------------------------------------- rotate_degrees
\* one iteration of `for _ in range(steps)`: the pulse write
RotatePulse(c) ==
  /\ pc[c] = "rd_loop"
  /\ idx[c] < RotateSteps(call[c].arg)
  /\ LET v == AngleToValue(PulseAngle(call[c].arg)) IN
     IF WriteResult(v) = "ok"
       THEN /\ log' = Append(log, Event(c, "write", v))
            /\ Goto(c, "rd_sleep")
            /\ UNCHANGED <<lock, outcome>>
       ELSE /\ Leave(c, WriteResult(v))
            /\ UNCHANGED log
  /\ UNCHANGED <<variant, servo_pin, ctrlVars, current_angle, call, idx, ncalls, order,
                 ownerVars>>

\* time.sleep(speed) of the iteration
RotateSleep(c) ==
  /\ pc[c] = "rd_sleep"
  /\ IF call[c].speed < 0
       THEN /\ Leave(c, "ValueError")
            /\ UNCHANGED <<log, idx>>
       ELSE /\ log' = Append(log, Event(c, "sleep", call[c].speed))
            /\ idx' = [idx EXCEPT ![c] = @ + 1]
            /\ Goto(c, "rd_loop")
            /\ UNCHANGED <<lock, outcome>>
  /\ UNCHANGED <<variant, servo_pin, ctrlVars, current_angle, call, ncalls, order,
                 ownerVars>>

\* a rotate_degrees that records the neutral position it drives to
AngleAfterNeutral_Synced(c) == NeutralAngle

\* current_angle once the neutral signal is written: line 113 is the last
\* statement of rotate_degrees, the field is not assigned
AngleAfterNeutral(c) == current_angle

\* after the loop: self.servo.value = 0, then the with block ends
RotateNeutral(c) ==
  /\ pc[c] = "rd_loop"
  /\ idx[c] >= RotateSteps(call[c].arg)
  /\ IF WriteResult(0) = "ok"
       THEN /\ log' = Append(log, Event(c, "write", 0))
            /\ current_angle' = AngleAfterNeutral(c)
            /\ Leave(c, "returned")
       ELSE /\ Leave(c, WriteResult(0))
            /\ UNCHANGED <<log, current_angle>>
  /\ UNCHANGED <<variant, servo_pin, ctrlVars, call, idx, ncalls, order,
                 ownerVars>>

\* ------------------------------------------------------- spin_compartments
\* one iteration of `for i in range(compartments)`, up to the signal write.
\* app: position is computed from settings.compartment_initial_position and
\* settings.compartment_increment, which are no attributes of settings, so
\* the first iteration raises AttributeError.  legacy: the constants are
\* local variables of the method.
SpinWrite(c) ==
  /\ pc[c] = "sc_loop"
  /\ idx[c] < call[c].arg
  /\ IF variant = "app" /\ ~(SettingsHas("compartment_initial_position")
                              /\ SettingsHas("compartment_increment"))
       THEN /\ Leave(c, "AttributeError")
            /\ UNCHANGED log
       ELSE LET v == AngleToValue(CompartmentAngle(idx[c])) IN
            IF WriteResult(v) = "ok"
              THEN /\ log' = Append(log, Event(c, "write", v))
                   /\ Goto(c, "sc_sleep")
                   /\ UNCHANGED <<lock, outcome>>
              ELSE /\ Leave(c, WriteResult(v))
                   /\ UNCHANGED log
  /\ UNCHANGED <<variant, servo_pin, ctrlVars, current_angle, call, idx, ncalls, order,
                 ownerVars>>

\* time.sleep(speed)
SpinSleep(c) ==
  /\ pc[c] = "sc_sleep"
  /\ IF call[c].speed < 0
       THEN /\ Leave(c, "ValueError")
            /\ UNCHANGED log
       ELSE /\ log' = Append(log, Event(c, "sleep", call[c].speed))
            /\ Goto(c, "sc_detach")
            /\ UNCHANGED <<lock, outcome>>
  /\ UNCHANGED <<variant, servo_pin, ctrlVars, current_angle, call, idx, ncalls, order,
                 ownerVars>>

\* self.servo.value = None
SpinDetach(c) ==
  /\ pc[c] = "sc_detach"
  /\ IF DetachResult = "ok"
       THEN /\ log' = Append(log, Event(c, "detach", 0))
            /\ Goto(c, "sc_delay")
            /\ UNCHANGED <<lock, outcome>>
       ELSE /\ Leave(c, DetachResult)
            /\ UNCHANGED log
  /\ UNCHANGED <<variant, servo_pin, ctrlVars, current_angle, call, idx, ncalls, order,
                 ownerVars>>

\* time.sleep(settings.compartment_delay) / time.sleep(0.2)
SpinDelay(c) ==
  /\ pc[c] = "sc_delay"
  /\ IF variant = "app" /\ ~SettingsHas("compartment_delay")
       THEN /\ Leave(c, "AttributeError")
            /\ UNCHANGED <<log, idx>>
       ELSE /\ log' = Append(log, Event(c, "sleep",
                              IF variant = "app" THEN CompartmentDelay
                                                 ELSE LegacyDelay))
            /\ idx' = [idx EXCEPT ![c] = @ + 1]
            /\ Goto(c, "sc_loop")
            /\ UNCHANGED <<lock, outcome>>
  /\ UNCHANGED <<variant, servo_pin, ctrlVars, current_angle, call, ncalls, order,
                 ownerVars>>

\* range(compartments) is exhausted: the with block ends
SpinReturn(c) ==
  /\ pc[c] = "sc_loop"
  /\ idx[c] >= call[c].arg
  /\ Leave(c, "returned")
  /\ UNCHANGED <<variant, servo_pin, ctrlVars, current_angle, call, idx, ncalls, log,
                 order, ownerVars>>


\* ---------------------------------------------------------------- lifecycle
CanLifecycle == opc = "idle" /\ nlife < MaxLifecycleCalls

\* the name under which a finished initialize()/cleanup() is recorded:
\* called directly, or through __enter__ / __exit__
Recorded(fn, ret) ==
  IF ret = "idle" THEN fn ELSE IF fn = "initialize" THEN "enter" ELSE "exit"

\* initialize()/cleanup() returns to its caller
OwnerReturn(fn, ret, res) ==
  /\ lastlife' = [op |-> Recorded(fn, ret), res |-> res]
  /\ prevlife' = lastlife
  /\ opc' = IF ret = "body" THEN "body" ELSE "idle"

\* an initialize() without the early return
AlreadyInitialized_Never == FALSE

\* initialize(): `if self._initialized: return`; the legacy initialize() has
\* no such test
AlreadyInitialized == variant = "app" /\ initialized

\* the start of initialize(), called from `ret`
InitializeFrom(ret) ==
  IF AlreadyInitialized
    THEN /\ OwnerReturn("initialize", ret, "returned")
         /\ UNCHANGED oret
    ELSE /\ opc' = "init_servo"
         /\ oret' = ret
         /\ UNCHANGED <<lastlife, prevlife>>

\* initialize() called by the owning context
InitializeCall ==
  /\ CanLifecycle
  /\ nlife' = nlife + 1
  /\ InitializeFrom("idle")
  /\ UNCHANGED <<variant, servo_pin, ctrlVars, current_angle, lock, callerVars, log, order,
                 oexc>>

\* self.servo = Servo(pin, ...): the handle is acquired.  The pin factory
\* (PiGPIOFactory or, if that raises, the default one) changes nothing that
\* the controller keeps.  legacy: initialize() ends here.
InitializeServo ==
  /\ opc = "init_servo"
  /\ closes' = Append(closes, 0)
  /\ servo' = Len(closes) + 1
  /\ IF variant = "app"
       THEN opc' = "init_flag" /\ UNCHANGED <<lastlife, prevlife>>
       ELSE OwnerReturn("initialize", oret, "returned")
  /\ UNCHANGED <<variant, servo_pin, initialized, current_angle, lock, callerVars, log,
                 order, oret, oexc, nlife>>

\* what initialize() raises when Servo(pin, ...) raises: there is no except
\* clause around the constructor, so the driver's own exception
InitializeError == "DriverError"

\* Servo(pin, ...) raises: the pin cannot be acquired.  The exception leaves
\* initialize() and, inside __enter__, the with statement (no body, no
\* __exit__).
InitializeServoFails ==
  /\ opc = "init_servo"
  /\ lastlife' = [op |-> Recorded("initialize", oret), res |-> InitializeError]
  /\ prevlife' = lastlife
  /\ opc' = "idle"
  /\ UNCHANGED <<variant, servo_pin, ctrlVars, current_angle, lock, callerVars, log, order,
                 oret, oexc, nlife>>

\* self._initialized = True
InitializeFlag ==
  /\ opc = "init_flag"
  /\ initialized' = TRUE
  /\ OwnerReturn("initialize", oret, "returned")
  /\ UNCHANGED <<variant, servo_pin, servo, closes, current_angle, lock, callerVars, log,
                 order, oret, oexc, nlife>>

\* a test of `self.servo is not None` alone
CleanupNeeded_NotNone == servo # 0

\* cleanup(): `if self._initialized and self.servo:` (app),
\* `if self.servo:` (legacy)
CleanupNeeded ==
  IF variant = "app" THEN initialized /\ Truthy(servo) ELSE Truthy(servo)

\* the start of cleanup(), called from `ret`
CleanupFrom(ret) ==
  IF CleanupNeeded
    THEN /\ opc' = "cl_close"
         /\ oret' = ret
         /\ UNCHANGED <<lastlife, prevlife>>
    ELSE /\ OwnerReturn("cleanup", ret, "returned")
         /\ UNCHANGED oret

\* cleanup() called by the owning context
CleanupCall ==
  /\ CanLifecycle
  /\ nlife' = nlife + 1
  /\ CleanupFrom("idle")
  /\ UNCHANGED <<variant, servo_pin, ctrlVars, current_angle, lock, callerVars, log, order,
                 oexc>>

\* self.servo.close(); legacy: cleanup() ends here
CleanupClose ==
  /\ opc = "cl_close"
  /\ closes' = [closes EXCEPT ![servo] = @ + 1]
  /\ IF variant = "app"
       THEN opc' = "cl_flag" /\ UNCHANGED <<lastlife, prevlife>>
       ELSE OwnerReturn("cleanup", oret, "returned")
  /\ UNCHANGED <<variant, servo_pin, servo, initialized, current_angle, lock, callerVars,
                 log, order, oret, oexc, nlife>>

\* self._initialized = False
CleanupFlag ==
  /\ opc = "cl_flag"
  /\ initialized' = FALSE
  /\ OwnerReturn("cleanup", oret, "returned")
  /\ UNCHANGED <<variant, servo_pin, servo, closes, current_angle, lock, callerVars, log,
                 order, oret, oexc, nlife>>

\* an __exit__ that returns without calling cleanup()
ScopeExit_NoCleanup ==
  OwnerReturn("cleanup", "exit", "returned") /\ UNCHANGED oret

\* __exit__(exc_type, exc_val, exc_tb): self.cleanup()
ScopeExit == CleanupFrom("exit")

\* `with controller:` -- __enter__ calls self.initialize()
ScopeEnter ==
  /\ CanLifecycle
  /\ variant = "app"
  /\ nlife' = nlife + 1
  /\ InitializeFrom("body")
  /\ oexc' = FALSE
  /\ UNCHANGED <<variant, servo_pin, ctrlVars, current_angle, lock, callerVars, log, order>>

\* the with body ends normally: __exit__(None, None, None) calls cleanup()
ScopeBodyReturns ==
  /\ opc = "body"
  /\ oexc' = FALSE
  /\ ScopeExit
  /\ UNCHANGED <<variant, servo_pin, ctrlVars, current_angle, lock, callerVars, log, order,
                 nlife>>

\* a motion call made in the with body raised: the exception leaves the body
\* and __exit__(exc_type, exc_val, exc_tb) calls cleanup()
Raised(c) ==
  pc[c] = "idle" /\ outcome[c] \in {"AttributeError", "ValueError", "DriverError"}

ScopeBodyRaises ==
  /\ opc = "body"
  /\ \E c \in Callers : Raised(c)
  /\ oexc' = TRUE
  /\ ScopeExit
  /\ UNCHANGED <<variant, servo_pin, ctrlVars, current_angle, lock, callerVars, log, order,
                 nlife>>

\* ------------------------------------------------------------------ health
\* GET /health: the handler returns constants; it reads neither the
\* controller nor the driver
HealthReport == [status |-> "healthy", servo |-> "connected"]

\* ------------------------------------------------------------ specification
Next ==
  \/ \E c \in Callers :
       \/ CallSetAngle(c)
       \/ CallRotateDegrees(c)
       \/ CallSpinCompartments(c)
       \/ CallReset(c)
       \/ RouteReject(c)
       \/ Acquire(c)
       \/ SetAngleWrite(c)
       \/ SetAngleSleep(c)
       \/ SetAngleAssign(c)
       \/ RotatePulse(c)
       \/ RotateSleep(c)
       \/ RotateNeutral(c)
       \/ SpinWrite(c)
       \/ SpinSleep(c)
       \/ SpinDetach(c)
       \/ SpinDelay(c)
       \/ SpinReturn(c)
  \/ InitializeCall
  \/ InitializeServo
  \/ InitializeServoFails
  \/ InitializeFlag
  \/ CleanupCall
  \/ CleanupClose
  \/ CleanupFlag
  \/ ScopeEnter
  \/ ScopeBodyReturns
  \/ ScopeBodyRaises

Spec == Init /\ [][Next]_vars

\* ------------------------------------------ set_angle over the angle range
\* the whole degrees of the documented range of set_angle, 0 to 180
AngleGrid == {d * 100 : d \in 0..(MaxAngle \div 100)}

\* an app controller on which initialize() has returned
ConvInit ==
  /\ variant = "app"
  /\ servo_pin = DefaultPin
  /\ servo = 1
  /\ closes = <<0>>
  /\ initialized = TRUE
  /\ current_angle = NeutralAngle
  /\ lock = 0
  /\ pc = [c \in Callers |-> "idle"]
  /\ call = [c \in Callers |-> NoCall]
  /\ idx = [c \in Callers |-> 0]
  /\ outcome = [c \in Callers |-> "none"]
  /\ ncalls = [c \in Callers |-> 0]
  /\ log = <<>>
  /\ order = <<>>
  /\ opc = "idle"
  /\ oret = "idle"
  /\ oexc = FALSE
  /\ nlife = 1
  /\ lastlife = [op |-> "initialize", res |-> "returned"]
  /\ prevlife = [op |-> "none", res |-> "none"]

\* set_angle(angle, 0.1) called with any angle of the grid
CallSetAngleGrid(c) ==
  /\ CanCall(c)
  /\ \E a \in AngleGrid : Enter(c, "set_angle", a, 1, "sa_lock")
  /\ UNCHANGED <<variant, servo_pin, ctrlVars, current_angle, lock, log, order, ownerVars>>

ConvNext ==
  \E c \in Callers :
    \/ CallSetAngleGrid(c)
    \/ Acquire(c)
    \/ SetAngleWrite(c)
    \/ SetAngleSleep(c)
    \/ SetAngleAssign(c)

ConvSpec == ConvInit /\ [][ConvNext]_vars

\* ---------------------------------- motion calls on an initialized controller
\* either controller with its handle acquired and the owner at rest: the app
\* one after initialize() returned, the legacy one after its constructor
LiveInit ==
  /\ variant \in {"app", "legacy"}
  /\ servo_pin = DefaultPin
  /\ servo = 1
  /\ closes = <<0>>
  /\ initialized = (variant = "app")
  /\ current_angle = NeutralAngle
  /\ lock = 0
  /\ pc = [c \in Callers |-> "idle"]
  /\ call = [c \in Callers |-> NoCall]
  /\ idx = [c \in Callers |-> 0]
  /\ outcome = [c \in Callers |-> "none"]
  /\ ncalls = [c \in Callers |-> 0]
  /\ log = <<>>
  /\ order = <<>>
  /\ opc = "idle"
  /\ oret = "idle"
  /\ oexc = FALSE
  /\ nlife = IF variant = "app" THEN 1 ELSE 0
  /\ lastlife = IF variant = "app"
                  THEN [op |-> "initialize", res |-> "returned"]
                  ELSE [op |-> "none", res |-> "none"]
  /\ prevlife = [op |-> "none", res |-> "none"]

\* the next statement of a call in progress: the thread of caller c runs
CallerStep(c) ==
  \/ Acquire(c)
  \/ SetAngleWrite(c)
  \/ SetAngleSleep(c)
  \/ SetAngleAssign(c)
  \/ RotatePulse(c)
  \/ RotateSleep(c)
  \/ RotateNeutral(c)
  \/ SpinWrite(c)
  \/ SpinSleep(c)
  \/ SpinDetach(c)
  \/ SpinDelay(c)
  \/ SpinReturn(c)

LiveNext ==
  \E c \in Callers :
    \/ CallSetAngle(c)
    \/ CallRotateDegrees(c)
    \/ CallSpinCompartments(c)
    \/ CallReset(c)
    \/ RouteReject(c)
    \/ CallerStep(c)

\* a thread inside a call is scheduled again and again, and time.sleep
\* returns after its finite length; nothing obliges a caller to make a call
Fairness == \A c \in Callers : WF_vars(CallerStep(c))

LiveSpec == LiveInit /\ [][LiveNext]_vars /\ Fairness


\* ================================================================== claims
\* caller c is inside a `with self.lock:` block
InProgress(c) ==
  pc[c] \in {"sa_write", "sa_sleep", "sa_assign", "rd_loop", "rd_sleep",
             "sc_loop", "sc_sleep", "sc_detach", "sc_delay"}

\* caller c is blocked at the entry of a `with self.lock:` block
Waiting(c) == pc[c] \in {"sa_lock", "rd_lock", "sc_lock"}

\* caller c's last call is over
Finished(c) == pc[c] = "idle" /\ ncalls[c] > 0

\* the driver events of caller c's last call, in order
Burst(c) == SelectSeq(log, LAMBDA e : e.c = c /\ e.n = call[c].n)

\* the signal and detach writes among them
Writes(c) == SelectSeq(Burst(c), LAMBDA e : e.kind # "sleep")

\* caller c's last call began on an open handle and no handle was ever closed
Undisturbed(c) == call[c].live /\ \A h \in 1..Len(closes) : closes[h] = 0

\* ---------------------------------------------------------------------- C1
OneInProgress ==
  \A c1, c2 \in Callers :
    InProgress(c1) /\ InProgress(c2) => c1 = c2 /\ lock = c1

LockKeptBetweenSteps ==
  \A c \in Callers : InProgress(c) /\ InProgress(c)' => lock = c /\ lock' = c

\* C1: at every moment at most one motion operation is in progress (from the
\* entry of its locked block to its return, sleeps included) and it holds the
\* lock; the lock is not released between two steps of the same operation.
C1_MutualExclusion == []OneInProgress /\ [][LockKeptBetweenSteps]_vars

\* one caller sleeps inside rotate_degrees while the other waits for the lock
C1_Witness ==
  \E c1, c2 \in Callers :
    c1 # c2 /\ pc[c1] = "rd_sleep" /\ idx[c1] = 1 /\ Waiting(c2)


\* ---------------------------------------------------------------------- C2
SameCall(e, f) == e.c = f.c /\ e.n = f.n

\* the position at which the call of event e acquired the lock
LockPosition(e) == CHOOSE k \in 1..Len(order) : order[k] = <<e.c, e.n>>

\* the events of one call are never interleaved with those of another call
BurstsContiguous ==
  \A i, j, k \in 1..Len(log) :
    i < j /\ j < k /\ SameCall(log[i], log[k]) => SameCall(log[j], log[i])

\* the bursts appear in the order in which the calls acquired the lock
BurstsInLockOrder ==
  \A i, j \in 1..Len(log) :
    i < j /\ ~SameCall(log[i], log[j])
      => LockPosition(log[i]) < LockPosition(log[j])

\* every finished call with valid arguments on a live controller has a burst
EveryCallHasBurst ==
  \A c \in Callers :
    Finished(c) /\ Undisturbed(c)
      /\ RequestValid(call[c].op, call[c].arg, call[c].speed)
      => Len(Writes(c)) >= 1

\* C2: N calls of any mix of the four motion operations produce exactly N
\* contiguous bursts of driver writes, never interleaved, in the order in
\* which the calls acquired the lock.
C2_NBurstsInLockOrder ==
  EveryCallHasBurst /\ BurstsContiguous /\ BurstsInLockOrder

\* ---------------------------------------------------------------------- C3
SetAngleBurst ==
  \A c \in Callers :
    Finished(c) /\ call[c].op = "set_angle" /\ outcome[c] = "returned"
      => /\ Len(Burst(c)) = 2
         /\ Burst(c)[1].kind = "write"
         /\ Burst(c)[1].val = AngleToValue(call[c].arg)
         /\ Burst(c)[2].kind = "sleep"
         /\ Burst(c)[2].val = call[c].speed

SetAngleReturn ==
  \A c \in Callers :
    variant = "app" /\ call[c].op = "set_angle"
      /\ outcome[c] = "none" /\ outcome'[c] = "returned"
      => current_angle' = call[c].arg

\* C3: a set_angle(angle, speed) that succeeds has made exactly one signal
\* write, of the converted value of angle, followed by one sleep of speed, and
\* at its return the current-angle field equals angle.
C3_SetAngle == []SetAngleBurst /\ [][SetAngleReturn]_vars

\* set_angle(180.0, 0.1) has returned on the app controller
C3_Witness ==
  \E c \in Callers :
    /\ variant = "app" /\ Finished(c) /\ outcome[c] = "returned"
    /\ call[c].op = "set_angle" /\ call[c].arg = 18000
    /\ current_angle = 18000
    /\ Len(Burst(c)) = 2

\* ---------------------------------------------------------------------- C4
\* floor(|degrees| / 10)
FloorSteps(degrees) == (IF degrees < 0 THEN -degrees ELSE degrees) \div 10

\* C4: a rotate_degrees(degrees, speed) that succeeds has made exactly
\* floor(|degrees|/10) pulse writes, each followed by one sleep of speed, and
\* then one write of the neutral signal (that of angle 90) as its last driver
\* event; for degrees = 0 that is the neutral write alone.
C4_RotateDegrees ==
  \A c \in Callers :
    Finished(c) /\ call[c].op = "rotate_degrees" /\ outcome[c] = "returned"
      => LET b == Burst(c)
             k == FloorSteps(call[c].arg)
         IN /\ Len(b) = 2 * k + 1
            /\ \A j \in 1..k :
                 /\ b[2 * j - 1].kind = "write"
                 /\ b[2 * j].kind = "sleep"
                 /\ b[2 * j].val = call[c].speed
            /\ b[2 * k + 1].kind = "write"
            /\ b[2 * k + 1].val = AngleToValue(NeutralAngle)

\* rotate_degrees(-25, 0.1) and rotate_degrees(0, 0.1) have both returned
C4_Witness ==
  \E c1, c2 \in Callers :
    /\ Finished(c1) /\ outcome[c1] = "returned"
    /\ call[c1].op = "rotate_degrees" /\ call[c1].arg = -25
    /\ Len(Burst(c1)) = 5
    /\ Finished(c2) /\ outcome[c2] = "returned"
    /\ call[c2].op = "rotate_degrees" /\ call[c2].arg = 0
    /\ Len(Burst(c2)) = 1


\* ---------------------------------------------------------------------- C5
\* the i-th cycle (i = 0, 1, ...) of burst b is: signal write, sleep of
\* speed, detach, sleep of the inter-compartment delay
IsCycle(b, i, speed) ==
  /\ b[4 * i + 1].kind = "write"
  /\ b[4 * i + 2].kind = "sleep" /\ b[4 * i + 2].val = speed
  /\ b[4 * i + 3].kind = "detach"
  /\ b[4 * i + 4].kind = "sleep" /\ b[4 * i + 4].val = CompartmentDelay

\* C5: advance_compartments(count, speed) with count in [1,50] issues exactly
\* count cycles (write, sleep of speed, detach, sleep of the delay), so its
\* last driver write is a detach, and the write of the first cycle is the
\* signal of angle 0.0.
C5_SpinCycles ==
  \A c \in Callers :
    Finished(c) /\ call[c].op = "spin_compartments" /\ Undisturbed(c)
      /\ CompartmentRequestValid(call[c].arg, call[c].speed)
      => /\ outcome[c] = "returned"
         /\ Len(Burst(c)) = 4 * call[c].arg
         /\ \A i \in 0..(call[c].arg - 1) : IsCycle(Burst(c), i, call[c].speed)
         /\ Burst(c)[1].val = -1000

\* ---------------------------------------------------------------------- C6
\* C6: reset() does what set_angle(90.0, default_speed) does: one write of
\* the neutral signal, one sleep of the default speed 0.5, and current-angle
\* equal to 90 at the end.
C6_ResetIsSetAngle90 ==
  \A c \in Callers :
    Finished(c) /\ call[c].op = "reset" /\ Undisturbed(c)
      => /\ outcome[c] = "returned"
         /\ Len(Burst(c)) = 2
         /\ Burst(c)[1].kind = "write" /\ Burst(c)[1].val = 0
         /\ Burst(c)[2].kind = "sleep" /\ Burst(c)[2].val = DefaultSpeed
         /\ (variant = "app" /\ (\A d \in Callers \ {c} : ncalls[d] = 0)
               => current_angle = ResetAngle)

\* ---------------------------------------------------------------------- C7
\* the step in which the owner calls initialize()
InitializeCallStep ==
  /\ nlife' = nlife + 1
  /\ \/ opc' = "init_servo" /\ oret' = "idle"
     \/ opc' = "idle" /\ lastlife'.op = "initialize"

InitializeWhileInitialized ==
  variant = "app" /\ initialized /\ InitializeCallStep
    => /\ UNCHANGED <<servo, closes, initialized, current_angle>>
       /\ opc' = "idle"

NoClose == \A h \in 1..Len(closes) : closes[h] = 0

OneAcquisition == variant = "app" /\ NoClose => Len(closes) <= 1

CleanupCallStep ==
  /\ nlife' = nlife + 1
  /\ \/ opc' = "cl_close" /\ oret' = "idle"
     \/ opc' = "idle" /\ lastlife'.op = "cleanup"

CleanupWhileNotInitialized ==
  variant = "app" /\ ~initialized /\ CleanupCallStep
    => /\ UNCHANGED <<servo, closes, initialized, current_angle>>
       /\ opc' = "idle"
       /\ lastlife'.res = "returned"

CleanupCompletes ==
  variant = "app" /\ opc = "cl_flag" /\ opc' # "cl_flag"
    => ~initialized' /\ closes'[servo'] = 1

ClosedAtMostOnce ==
  variant = "app" => \A h \in 1..Len(closes) : closes[h] <= 1

\* C8: cleanup() called before initialize() or after a cleanup changes nothing
\* and returns normally; cleanup() on an initialized controller closes the
\* handle once and leaves the initialized flag false; no handle is ever closed
\* twice.
C8_CleanupIdempotent ==
  []ClosedAtMostOnce
    /\ [][CleanupWhileNotInitialized /\ CleanupCompletes]_vars

\* cleanup() has returned right after a cleanup that released the handle
C8_Witness ==
  /\ variant = "app" /\ opc = "idle" /\ ~initialized
  /\ prevlife.op \in {"cleanup", "exit"}
  /\ lastlife = [op |-> "cleanup", res |-> "returned"]
  /\ Len(closes) = 1 /\ closes[1] = 1

\* ---------------------------------------------------------------------- C9
\* inside the with body the controller is initialized
ScopeInside == opc = "body" => initialized /\ IsOpen(servo)

\* once the with statement is left the handle is closed and the flag false
ScopeLeft ==
  opc = "idle" /\ lastlife.op = "exit"
    => ~initialized /\ servo # 0 /\ closes[servo] = 1

\* C9: entering the scope (__enter__) initializes the controller, and on every
\* way out of the scope, the one by an exception of a motion call included,
\* cleanup() has run: the handle is closed and the initialized flag is false.
C9_ScopedAcquisition == ScopeInside /\ ScopeLeft

\* the scope was left by the exception of a motion call that had already
\* written to the driver
C9_Witness ==
  /\ opc = "idle" /\ lastlife.op = "exit" /\ oexc
  /\ ~initialized /\ closes[servo] = 1
  /\ \E c \in Callers :
       Raised(c) /\ call[c].live /\ outcome[c] = "ValueError"
         /\ Len(Writes(c)) = 1

\* --------------------------------------------------------------------- C10
\* C10: a motion operation called on the controller with an angle, degrees,
\* count or speed outside its bounds ends with a ValidationError and has made
\* no driver write.
C10_RejectedBeforeWrite ==
  \A c \in Callers :
    Finished(c) /\ Undisturbed(c)
      /\ ~RequestValid(call[c].op, call[c].arg, call[c].speed)
      => outcome[c] = "ValidationError" /\ Len(Writes(c)) = 0

\* --------------------------------------------------------------------- C11
\* caller c's last call was made while the controller held no open handle:
\* before the first initialize() or after a cleanup() had closed it
CalledUninitialized(c) == call[c].op # "none" /\ ~call[c].live

\* C11: a motion operation with valid arguments invoked before initialize()
\* or after cleanup() ends with a NotInitializedError.  Stated for set_angle
\* and rotate_degrees, the two operations that read no settings attribute
\* (reset and spin_compartments of the app controller end on that, C5 and C6).
C11_NotInitializedError ==
  \A c \in Callers :
    Finished(c) /\ CalledUninitialized(c)
      /\ call[c].op \in {"set_angle", "rotate_degrees"}
      /\ RequestValid(call[c].op, call[c].arg, call[c].speed)
      => outcome[c] = "NotInitializedError"

\* --------------------------------------------------------------------- C12
\* the owner's last initialize() (direct or through __enter__) failed to
\* acquire the driver
InitializeFailed ==
  /\ opc = "idle"
  /\ lastlife.op \in {"initialize", "enter"}
  /\ lastlife.res # "returned"

\* C12: when the driver cannot be acquired during initialize(), the error is
\* a HardwareUnavailableError, the initialized flag stays false and the health
\* report is neither 'healthy' nor 'connected'.
C12_HardwareUnavailable ==
  InitializeFailed
    => /\ lastlife.res = "HardwareUnavailableError"
       /\ ~initialized
       /\ HealthReport.status # "healthy"
       /\ HealthReport.servo # "connected"

\* --------------------------------------------------------------------- C13
\* the handles acquired and not yet closed
LiveHandles == {h \in 1..Len(closes) : closes[h] = 0}

\* C13: after any sequence of initialize() and cleanup() calls at most one
\* handle of the controller's pin is live (acquired and not yet closed).
C13_OneLiveHandle == Cardinality(LiveHandles) <= 1

\* --------------------------------------------------------------------- C14
\* the signal writes of set_angle calls, each with the angle of its call
IsConversion(e) ==
  e.kind = "write" /\ call[e.c].n = e.n /\ call[e.c].op = "set_angle"

ConvAngle(e) == call[e.c].arg

\* e.val / 1000 is (angle - 90) / 90 to the thousandth
ConvExact(e) ==
  /\ e.val * 90 <= (ConvAngle(e) - 9000) * 10
  /\ (ConvAngle(e) - 9000) * 10 < (e.val + 1) * 90

\* C14: for every angle in [0,180] the value written by set_angle is
\* (angle - 90) / 90, lies in [-1,1], is -1 for 0, 0 for 90 and 1 for 180, and
\* a larger angle gives a larger value.
C14_NormalizedConversion ==
  /\ \A i \in 1..Len(log) :
        IsConversion(log[i]) /\ ConvAngle(log[i]) \in 0..18000
          => /\ ConvExact(log[i])
             /\ log[i].val >= -1000 /\ log[i].val <= 1000
             /\ (ConvAngle(log[i]) = 0 => log[i].val = -1000)
             /\ (ConvAngle(log[i]) = 9000 => log[i].val = 0)
             /\ (ConvAngle(log[i]) = 18000 => log[i].val = 1000)
  /\ \A i, j \in 1..Len(log) :
        IsConversion(log[i]) /\ IsConversion(log[j])
          /\ ConvAngle(log[i]) < ConvAngle(log[j])
          => log[i].val < log[j].val

\* set_angle(90.0) and set_angle(91.0) have both written their signal
C14_Witness ==
  \E i, j \in 1..Len(log) :
    /\ IsConversion(log[i]) /\ IsConversion(log[j])
    /\ ConvAngle(log[i]) = 9000 /\ log[i].val = 0
    /\ ConvAngle(log[j]) = 9100 /\ log[j].val = 11

\* --------------------------------------------------------------------- C15
\* the direction the claim states: +1 from 0 upwards, -1 below
ClaimedDirection(degrees) == IF degrees >= 0 THEN 1 ELSE -1

\* caller c is inside the locked block of rotate_degrees, where the local
\* `direction` exists
InRotate(c) == call[c].op = "rotate_degrees" /\ InProgress(c)

\* the local `direction` is the claimed one
DirectionAsClaimed ==
  \A c \in Callers :
    InRotate(c) => RotateDirection(call[c].arg) = ClaimedDirection(call[c].arg)

\* every pulse written so far is the signal of 135 degrees for a positive
\* rotation and of 45 degrees for a negative one, whatever current_angle is
PulsesFixed ==
  \A c \in Callers :
    InRotate(c) =>
      \A j \in 1..Len(Burst(c)) :
        Burst(c)[j].kind = "write"
          => Burst(c)[j].val = IF call[c].arg >= 0 THEN 500 ELSE -500

\* C15: rotate_degrees computes direction +1 for degrees >= 0 (0 included)
\* and -1 for degrees < 0, and every pulse writes the signal of the fixed
\* angle 135 (direction +1) or 45 (direction -1), independent of the
\* current-angle field.
C15_RotateDirection == DirectionAsClaimed /\ PulsesFixed

\* --------------------------------------------------------------------- C16
\* clamp(0, 180, ((0.0 + 1.3 * i) / 12.5) * 180), in hundredths of a degree
ClaimedCompartmentAngle(i) == Min(18000, Max(0, (13 * i * 18000) \div 125))

\* the signal writes of caller c's last call
SignalWrites(c) == SelectSeq(Burst(c), LAMBDA e : e.kind = "write")

\* the angle the code computes in iteration i, for every i a request can
\* reach: the claimed one, within [0,180], non-decreasing, 180 from i = 10 on
CompartmentAnglesClamped ==
  \A i \in 0..49 :
    /\ CompartmentAngle(i) = ClaimedCompartmentAngle(i)
    /\ CompartmentAngle(i) >= 0 /\ CompartmentAngle(i) <= 18000
    /\ AngleToValue(CompartmentAngle(i)) \in -1000..1000
    /\ (i > 0 => CompartmentAngle(i - 1) <= CompartmentAngle(i))
    /\ (i >= 10 => CompartmentAngle(i) = 18000)

\* C16: in advance_compartments(count, speed) iteration i (0 <= i < count)
\* writes the signal of clamp(0, 180, ((0.0 + 1.3 * i) / 12.5) * 180); every
\* signal value is within [-1,1], the written angles do not decrease with i,
\* and from i = 10 on the signal is that of angle 180.
C16_CompartmentClamp ==
  \A c \in Callers :
    Finished(c) /\ call[c].op = "spin_compartments" /\ Undisturbed(c)
      /\ CompartmentRequestValid(call[c].arg, call[c].speed)
      => /\ Len(SignalWrites(c)) = call[c].arg
         /\ \A i \in 1..Len(SignalWrites(c)) :
              /\ SignalWrites(c)[i].val
                   = AngleToValue(ClaimedCompartmentAngle(i - 1))
              /\ SignalWrites(c)[i].val \in -1000..1000
              /\ (i > 1 => SignalWrites(c)[i - 1].val <= SignalWrites(c)[i].val)
              /\ (i > 10 => SignalWrites(c)[i].val = 1000)

\* --------------------------------------------------------------------- C17
\* the step in which caller c executes `self.current_angle = angle`
AssignStep(c) == pc[c] = "sa_assign" /\ pc'[c] # "sa_assign"

\* the assignment is made by the caller that holds the lock, and
\* current_angle changes in no other step
WrittenByHolder ==
  /\ \A c \in Callers : AssignStep(c) => lock = c
  /\ current_angle' # current_angle
       => \E c \in Callers : AssignStep(c) /\ lock = c

\* no two callers are at the assignment together
OneWriter ==
  \A c1, c2 \in Callers :
    pc[c1] = "sa_assign" /\ pc[c2] = "sa_assign" => c1 = c2

\* C17: the current-angle field is written only by the caller that holds the
\* lock, and never by two callers at once.
C17_AngleWrittenByHolder == []OneWriter /\ [][WrittenByHolder]_vars

\* one set_angle has written current_angle and returned; a second one, with
\* another angle, holds the lock and is about to write it
C17_Witness ==
  \E c1, c2 \in Callers :
    /\ c1 # c2 /\ variant = "app"
    /\ Finished(c1) /\ outcome[c1] = "returned" /\ call[c1].op = "set_angle"
    /\ current_angle = call[c1].arg
    /\ pc[c2] = "sa_assign" /\ lock = c2 /\ call[c2].arg # call[c1].arg

\* --------------------------------------------------------------------- C18
\* every call issued so far passes the request models of the boundary
ThroughRequestModels ==
  \A c \in Callers :
    call[c].op # "none" => RequestValid(call[c].op, call[c].arg, call[c].speed)

\* no caller has made more than its first call, and no set_angle or reset
\* among these has returned
NothingAssigned ==
  \A c \in Callers :
    /\ ncalls[c] <= 1
    /\ call[c].op \in {"set_angle", "reset"} => outcome[c] # "returned"

\* C18: the current-angle field starts at 90 and, whatever motion operations
\* are issued through the request models (angle in [0,180], degrees in
\* [-360,360], count in [1,50]), it is never below 0 nor above 180.
C18_AngleInRange ==
  /\ ThroughRequestModels => current_angle >= 0 /\ current_angle <= 18000
  /\ NothingAssigned => current_angle = 9000

\* set_angle(180.0, 0.1) and then set_angle(0.0, 0.5) have returned: the
\* field went to both ends of the range
C18_Witness ==
  \E c1, c2 \in Callers :
    /\ variant = "app" /\ Len(order) = 2
    /\ order[1][1] = c1 /\ order[2][1] = c2
    /\ Finished(c1) /\ outcome[c1] = "returned" /\ call[c1].arg = 18000
    /\ Finished(c2) /\ outcome[c2] = "returned" /\ call[c2].arg = 0
    /\ call[c1].op = "set_angle" /\ call[c2].op = "set_angle"
    /\ current_angle = 0

\* --------------------------------------------------------------------- C19
\* caller c executes an assignment to self.servo.value in this step
WriteAttempt(c) ==
  /\ pc'[c] # pc[c]
  /\ \/ pc[c] \in {"sa_write", "rd_loop", "sc_detach"}
     \/ /\ pc[c] = "sc_loop" /\ idx[c] < call[c].arg
        /\ variant = "app" => SettingsHas("compartment_initial_position")

\* close() has been called on the handle the controller holds
HandleClosed == servo # 0 /\ closes[servo] > 0

\* a sequence in flight: the call has already written to the handle
InFlight(c) == Len(Writes(c)) >= 1

NoWriteOnClosedHandle ==
  \A c \in Callers : InFlight(c) /\ WriteAttempt(c) => ~HandleClosed

\* C19: no signal or detach write is made on a handle after close() has been
\* called on it, in particular not by a rotate_degrees or spin_compartments
\* sequence that is in flight when cleanup() runs.
C19_NoWriteAfterClose == [][NoWriteOnClosedHandle]_vars

\* --------------------------------------------------------------------- C20
\* the lock is held only by a caller inside its locked block
LockOnlyInProgress == \A c \in Callers : lock = c => InProgress(c)

\* the step in which a caller leaves its locked block, by return or by
\* exception, frees the lock
ReleasedAtExit ==
  \A c \in Callers : InProgress(c) /\ ~InProgress(c)' => lock' = 0

\* a call that is over makes no further driver event: it is neither retried
\* nor resumed
NotResumed ==
  \A c \in Callers :
    Finished(c) /\ call'[c] = call[c]
      => SelectSeq(log', LAMBDA e : e.c = c /\ e.n = call[c].n) = Burst(c)

\* C20: the lock is released on every exit path of a motion operation; an
\* operation whose driver write fails stops there, is not retried or resumed,
\* and leaves the lock free for a later operation.
C20_LockReleased ==
  []LockOnlyInProgress /\ [][ReleasedAtExit /\ NotResumed]_vars

\* a call failed on the driver after its first write (the handle was closed
\* under it), and the other caller acquired the lock after it
C20_Witness ==
  \E c1, c2 \in Callers :
    /\ c1 # c2
    /\ Raised(c1) /\ outcome[c1] = "DriverError" /\ Len(Writes(c1)) >= 1
    /\ Len(order) = 2 /\ order[1][1] = c1 /\ order[2][1] = c2
    /\ lock = c2 /\ InProgress(c2)

\* --------------------------------------------------------------------- C21
\* a step of caller c inside set_angle, other than the assignment itself
StepBeforeAssign(c) ==
  /\ pc'[c] # pc[c]
  /\ call'[c].op = "set_angle"
  /\ pc[c] # "sa_assign"

\* no step of set_angle before the assignment changes current_angle, so a
\* call that fails (on its write or in its sleep) has left it alone
UnchangedBeforeAssign ==
  \A c \in Callers : StepBeforeAssign(c) => current_angle' = current_angle

\* when the assignment is made, the write and the sleep are both behind
AssignedAfterWriteAndSleep ==
  \A c \in Callers :
    pc[c] = "sa_assign"
      => /\ Len(Burst(c)) = 2
         /\ Burst(c)[1].kind = "write" /\ Burst(c)[2].kind = "sleep"

\* a failed set_angle has never reached the assignment
FailedNeverAssigned ==
  \A c \in Callers :
    call[c].op = "set_angle" /\ Raised(c)
      /\ (\A d \in Callers \ {c} : ncalls[d] = 0) /\ ncalls[c] = 1
      => current_angle = 9000

\* C21: a set_angle call that fails (its write raises, or the controller is
\* not initialized) leaves the current-angle field unchanged; the field is
\* assigned only after the write and the sleep have both completed.
C21_FailedSetAngleKeepsAngle ==
  /\ [](AssignedAfterWriteAndSleep /\ FailedNeverAssigned)
  /\ [][UnchangedBeforeAssign]_vars

\* set_angle(180.0, 0.1) returned, then set_angle(45.0, -0.1) failed after
\* its write: current_angle is still 180
C21_Witness ==
  \E c1, c2 \in Callers :
    /\ variant = "app" /\ Len(order) = 2
    /\ order[1][1] = c1 /\ order[2][1] = c2
    /\ call[c1].op = "set_angle" /\ outcome[c1] = "returned"
    /\ call[c1].arg = 18000
    /\ call[c2].op = "set_angle" /\ Raised(c2) /\ call[c2].arg = 4500
    /\ Len(Writes(c2)) = 1
    /\ current_angle = 18000

\* --------------------------------------------------------------------- C22
\* a step of caller c inside rotate_degrees or spin_compartments
RotateOrSpinStep(c) ==
  /\ pc'[c] # pc[c]
  /\ call'[c].op \in {"rotate_degrees", "spin_compartments"}

\* such a step changes neither current_angle nor the pin nor the flag
FrameKept ==
  \A c \in Callers :
    RotateOrSpinStep(c) => UNCHANGED <<current_angle, servo_pin, initialized>>

\* with one set_angle returned and every other call a rotate_degrees or a
\* spin_compartments, current_angle is the angle of that set_angle; with
\* none, it is the initial 90
AngleOfLastSetAngle ==
  (\A d \in Callers : ncalls[d] <= 1 /\ call[d].op # "reset")
    => /\ \A c \in Callers :
            ( /\ call[c].op = "set_angle" /\ outcome[c] = "returned"
              /\ variant = "app"
              /\ (\A d \in Callers \ {c} : call[d].op # "set_angle") )
            => current_angle = call[c].arg
       /\ ( (\A c \in Callers : call[c].op # "set_angle")
              => current_angle = 9000 )

\* C22: rotate_degrees and spin_compartments leave current-angle, the pin
\* number and the initialized flag unchanged: after either, current-angle is
\* still the angle of the last successful set_angle (or the initial 90), though
\* the actuator was last driven to neutral or detached.
C22_RotateSpinFrame == []AngleOfLastSetAngle /\ [][FrameKept]_vars

\* set_angle(180.0, 0.1) returned, then rotate_degrees(20, 0.1) returned: the
\* last driver write is the neutral signal and current_angle is still 180
C22_Witness ==
  \E c1, c2 \in Callers :
    /\ variant = "app" /\ Len(order) = 2
    /\ order[1][1] = c1 /\ order[2][1] = c2
    /\ call[c1].op = "set_angle" /\ outcome[c1] = "returned"
    /\ call[c1].arg = 18000
    /\ call[c2].op = "rotate_degrees" /\ Finished(c2)
    /\ outcome[c2] = "returned" /\ call[c2].arg = 20
    /\ log[Len(log)].c = c2 /\ log[Len(log)].kind = "write"
    /\ log[Len(log)].val = 0
    /\ current_angle = 18000 /\ servo_pin = 17 /\ initialized

\* --------------------------------------------------------------------- C23
\* a call with valid arguments that is over has returned
EveryCallReturns ==
  \A c \in Callers :
    Finished(c) /\ RequestValid(call[c].op, call[c].arg, call[c].speed)
      => outcome[c] = "returned"

\* every call comes to an end
EveryCallEnds == \A c \in Callers : (pc[c] # "idle") ~> (pc[c] = "idle")

\* every caller waiting for the lock acquires it
EveryWaiterAcquires == \A c \in Callers : Waiting(c) ~> (lock = c)

\* the lock is free again and again
LockEventuallyFree == []<>(lock = 0)

\* C23: under fair scheduling every motion operation called on an
\* initialized controller eventually returns, the lock is eventually free
\* again, and every caller waiting for the lock eventually acquires it.
C23_Termination ==
  /\ []EveryCallReturns
  /\ EveryCallEnds
  /\ EveryWaiterAcquires
  /\ LockEventuallyFree

====
